---- MODULE Spec2Model ----
(***************************************************************************)
(* A model of codealong's GitBlame (src/codealong/src/git_blame.rs): a     *)
(* lazily scanning reader over the output of a `git blame --incremental`   *)
(* subprocess, and the parser of its record lines.                         *)
(*                                                                         *)
(* Text is modelled as sequences of characters, a character being a        *)
(* one-character string (or a named token for a byte or code point that    *)
(* has no ASCII spelling).                                                 *)
(***************************************************************************)
EXTENDS Integers, Sequences, FiniteSets, TLC

(***************************************************************************)
(* Characters                                                              *)
(***************************************************************************)

AsciiDigitSeq == <<"0", "1", "2", "3", "4", "5", "6", "7", "8", "9">>

AsciiDigits == {AsciiDigitSeq[i] : i \in 1..10}

LowerHexSeq == AsciiDigitSeq \o <<"a", "b", "c", "d", "e", "f">>

UpperHexSeq == AsciiDigitSeq \o <<"A", "B", "C", "D", "E", "F">>

\* The class [0-9a-f] of the regex.
LowerHex == {LowerHexSeq[i] : i \in 1..16}

\* ARABIC-INDIC DIGIT THREE: a code point of Unicode's class Nd outside ASCII.
ArabicIndicThree == "U+0663"

\* The class \d of the regex crate, Unicode-aware by default: every code
\* point of class Nd (here the ASCII digits and one sample outside ASCII).
RegexDigit == AsciiDigits \cup {ArabicIndicThree}

\* A byte that is not valid UTF-8 wherever it stands.
InvalidByte == "0xFF"

LF == "\n"

SP == " "

ValidUtf8(text) == \A i \in 1..Len(text) : text[i] # InvalidByte

(***************************************************************************)
(* Oid::from_str and usize's FromStr, the two conversions of BlameLine::new*)
(***************************************************************************)

\* The length of a revision identifier in hexadecimal characters.
OidHexLen == 40

HexVal(c) ==
    IF \E i \in 1..16 : LowerHexSeq[i] = c
    THEN (CHOOSE i \in 1..16 : LowerHexSeq[i] = c) - 1
    ELSE (CHOOSE i \in 1..16 : UpperHexSeq[i] = c) - 1

IsHexChar(c) == \E i \in 1..16 : LowerHexSeq[i] = c \/ UpperHexSeq[i] = c

\* git2's Oid::from_str: an error for an empty string, one longer than 40
\* characters or one with a character that is no hex digit; else the bytes
\* the hex digits spell, two digits a byte, padded with zeros.
Oid_from_str(hex) ==
    IF \/ Len(hex) = 0
       \/ Len(hex) > OidHexLen
       \/ \E i \in 1..Len(hex) : ~IsHexChar(hex[i])
    THEN [ok |-> FALSE, oid |-> <<>>]
    ELSE [ok |-> TRUE,
          oid |-> [b \in 1..(OidHexLen \div 2) |->
                     (IF 2 * b - 1 <= Len(hex) THEN 16 * HexVal(hex[2 * b - 1]) ELSE 0)
                   + (IF 2 * b <= Len(hex) THEN HexVal(hex[2 * b]) ELSE 0)]]

\* Oid's Display: the bytes as lowercase hexadecimal.
Oid_to_string(oid) ==
    [i \in 1..(2 * Len(oid)) |->
        IF i % 2 = 1 THEN LowerHexSeq[(oid[(i + 1) \div 2] \div 16) + 1]
                     ELSE LowerHexSeq[(oid[i \div 2] % 16) + 1]]

\* usize::MAX of a 64-bit target, 2^64 - 1, in decimal digits.
UsizeMaxDigits ==
    <<"1", "8", "4", "4", "6", "7", "4", "4", "0", "7",
      "3", "7", "0", "9", "5", "5", "1", "6", "1", "5">>

DigitVal(c) == (CHOOSE i \in 1..10 : AsciiDigitSeq[i] = c) - 1

RECURSIVE StripZeros(_)
StripZeros(ds) ==
    IF Len(ds) > 1 /\ ds[1] = "0" THEN StripZeros(Tail(ds)) ELSE ds

\* a <= b for two digit strings of the same length.
RECURSIVE DigitsLeq(_, _)
DigitsLeq(a, b) ==
    IF Len(a) = 0 THEN TRUE
    ELSE IF DigitVal(a[1]) # DigitVal(b[1]) THEN DigitVal(a[1]) < DigitVal(b[1])
    ELSE DigitsLeq(Tail(a), Tail(b))

\* Whether the number a digit string spells is at most usize::MAX.
FitsUsize(ds) ==
    LET n == StripZeros(ds)
    IN  \/ Len(n) < Len(UsizeMaxDigits)
        \/ Len(n) = Len(UsizeMaxDigits) /\ DigitsLeq(n, UsizeMaxDigits)

RECURSIVE DecValue(_)
DecValue(ds) ==
    IF Len(ds) = 0 THEN 0
    ELSE 10 * DecValue(SubSeq(ds, 1, Len(ds) - 1)) + DigitVal(ds[Len(ds)])

\* str::parse::<usize>: an optional "+", then ASCII digits only, at least
\* one; an error when there is none, when a character is no ASCII digit or
\* when the number does not fit (it never wraps).
UsizeFromStr(s) ==
    LET ds == IF Len(s) > 0 /\ s[1] = "+" THEN Tail(s) ELSE s
    IN  IF \/ Len(ds) = 0
           \/ \E i \in 1..Len(ds) : ds[i] \notin AsciiDigits
           \/ ~FitsUsize(ds)
        THEN [ok |-> FALSE, val |-> 0]
        ELSE [ok |-> TRUE, val |-> DecValue(ds)]

(***************************************************************************)
(* BlameLine::new                                                          *)
(***************************************************************************)

\* The length of the longest run of \d characters of line that starts at i.
RECURSIVE DigitRun(_, _)
DigitRun(text, i) ==
    IF i <= Len(text) /\ text[i] \in RegexDigit THEN 1 + DigitRun(text, i + 1) ELSE 0

NoCaptures == [matched |-> FALSE, c1 |-> <<>>, c2 |-> <<>>]

\* BLAME_LINE_REGEX.captures(line) for ^([0-9a-f]{40}) (\d+) \d+ \d+\n$ .
\* No class of the pattern holds the character that follows it, so each
\* \d+ takes the whole run of digits; ^ and $ are the ends of the text.
BLAME_LINE_REGEX(text) ==
    LET p2 == OidHexLen + 2
        n2 == DigitRun(text, p2)
        p3 == p2 + n2 + 1
        n3 == DigitRun(text, p3)
        p4 == p3 + n3 + 1
        n4 == DigitRun(text, p4)
    IN  IF /\ Len(text) > OidHexLen
           /\ \A i \in 1..OidHexLen : text[i] \in LowerHex
           /\ text[OidHexLen + 1] = SP
           /\ n2 >= 1 /\ p2 + n2 <= Len(text) /\ text[p2 + n2] = SP
           /\ n3 >= 1 /\ p3 + n3 <= Len(text) /\ text[p3 + n3] = SP
           /\ n4 >= 1 /\ p4 + n4 = Len(text) /\ text[p4 + n4] = LF
        THEN [matched |-> TRUE,
              c1 |-> SubSeq(text, 1, OidHexLen),
              c2 |-> SubSeq(text, p2, p2 + n2 - 1)]
        ELSE NoCaptures

NoOid == <<>>

NoBlameLine == [kind |-> "None", oid |-> NoOid, original_lineno |-> 0]

PanicBlameLine == [kind |-> "Panic", oid |-> NoOid, original_lineno |-> 0]

\* BlameLine::new(line): None when the regex does not match; else both
\* captures converted and unwrapped, a failed conversion being a panic.
BlameLine_new(text) ==
    LET captures == BLAME_LINE_REGEX(text)
        o == Oid_from_str(captures.c1)
        n == UsizeFromStr(captures.c2)
    IN  IF ~captures.matched THEN NoBlameLine
        ELSE IF ~o.ok \/ ~n.ok THEN PanicBlameLine
        ELSE [kind |-> "Some", oid |-> o.oid, original_lineno |-> n.val]

(***************************************************************************)
(* The subprocess and the session                                          *)
(***************************************************************************)

\* Bounds of the model.
MaxProg == 2

PipeCap == 1

MaxLineno == 2

Sessions == {1, 2}

Linenos == 1..MaxLineno

VARIABLES
    prog,          \* what the subprocess writes, in order: its writes to either stream
    live,          \* the sessions the caller constructs (the others stay absent)
    child,         \* per session: the subprocess (none, running, exited, killed, reaped)
    cpos,          \* per session: how many writes of prog the subprocess has made
    reader,        \* per session: standard output, buf unread and pos lines read
    error_reader,  \* per session: standard error, buf unread and pos writes read
    line_map,      \* per session: original line number -> revision
    pc,            \* per session: where the caller stands
    lineno,        \* per session: the argument of the current or last get_line
    line,          \* per session: scan_for_line's local buffer
    result,        \* per session: what the last get_line returned
    how,           \* per session (history): how the last get_line left its loop
    answered,      \* per session (history): line number -> the first Some it got
    entry,         \* per session (history): reader's pos when the last get_line began
    failed,        \* per session (history): a get_line has returned a BlameError
    drop_err,      \* per session (history): the step of Drop that failed, if any
    parse_line,    \* the input of a bare BlameLine::new call
    parse_out      \* its result

sessionVars ==
    <<prog, live, child, cpos, reader, error_reader, line_map, pc, lineno,
      line, result, how, answered, entry, failed, drop_err>>

histVars == <<entry, failed, drop_err>>

parseVars == <<parse_line, parse_out>>

vars == <<sessionVars, parseVars>>

\* Sample revisions, and the lines git blame --incremental -s -l -p writes.
\* The revision of the repository's own test.
HexA ==
    <<"8", "6", "d", "2", "4", "2", "3", "0", "1", "8",
      "3", "0", "0", "7", "5", "e", "9", "3", "f", "f",
      "0", "3", "9", "a", "4", "d", "1", "e", "8", "8",
      "6", "7", "3", "a", "4", "a", "3", "0", "2", "0">>

HexB == [i \in 1..OidHexLen |-> IF i % 2 = 1 THEN "d" ELSE "2"]

RecordLine(hex, orig) == hex \o <<SP>> \o orig \o <<SP, "1", SP, "1", LF>>

RecA1 == RecordLine(HexA, <<"1">>)

RecB1 == RecordLine(HexB, <<"1">>)

RecA2 == RecordLine(HexA, <<"2">>)

\* A record whose original line number is usize::MAX + 1.
HugeDigits == [UsizeMaxDigits EXCEPT ![Len(UsizeMaxDigits)] = "6"]

RecHuge == RecordLine(HexA, HugeDigits)

MetaLine == <<"a", "u", "t", "h", "o", "r", SP, "J", LF>>

\* A metadata line whose text (an author's name) is not UTF-8.
BadLine == <<"a", "u", "t", "h", "o", "r", SP, InvalidByte, LF>>

\* A write that ends in the middle of a line.
PartWrite == <<"s", "u", "m">>

ErrText == <<"f", "a", "t", "a", "l", LF>>

ErrBadText == <<"f", InvalidByte, LF>>

OutWrites == {RecA1, RecB1, RecA2, RecHuge, MetaLine, BadLine, PartWrite}

ErrWrites == {ErrText, ErrBadText}

Ops ==
    [stream : {"stdout"}, data : OutWrites] \cup [stream : {"stderr"}, data : ErrWrites]

Programs == UNION {[1..n -> Ops] : n \in 0..MaxProg}

\* The programs of a subprocess that writes records only.
RecordPrograms ==
    UNION {[1..n -> [stream : {"stdout"}, data : {RecA1, RecB1, RecA2}]] : n \in 0..MaxProg}

\* Result<Option<Oid>>
NoResult == [kind |-> "NoResult", oid |-> NoOid, text |-> <<>>]

Ok_Some(o) == [kind |-> "Some", oid |-> o, text |-> <<>>]

Ok_None == [kind |-> "None", oid |-> NoOid, text |-> <<>>]

Err_BlameError(t) == [kind |-> "BlameError", oid |-> NoOid, text |-> t]

Err_Io == [kind |-> "IoError", oid |-> NoOid, text |-> <<>>]

EmptyStream == [buf |-> <<>>, pos |-> 0]

RECURSIVE Flatten(_)
Flatten(chunks) ==
    IF Len(chunks) = 0 THEN <<>> ELSE Head(chunks) \o Flatten(Tail(chunks))

\* The data of the writes of p to one stream, in order.
RECURSIVE WritesTo(_, _)
WritesTo(p, stream) ==
    IF Len(p) = 0 THEN <<>>
    ELSE (IF Head(p).stream = stream THEN <<Head(p).data>> ELSE <<>>)
         \o WritesTo(Tail(p), stream)

InitSessions ==
    /\ child = [s \in Sessions |-> "none"]
    /\ cpos = [s \in Sessions |-> 0]
    /\ reader = [s \in Sessions |-> EmptyStream]
    /\ error_reader = [s \in Sessions |-> EmptyStream]
    /\ line_map = [s \in Sessions |-> <<>>]
    /\ pc = [s \in Sessions |-> "absent"]
    /\ lineno = [s \in Sessions |-> 0]
    /\ line = [s \in Sessions |-> <<>>]
    /\ result = [s \in Sessions |-> NoResult]
    /\ how = [s \in Sessions |-> "none"]
    /\ answered = [s \in Sessions |-> <<>>]
    /\ entry = [s \in Sessions |-> 0]
    /\ failed = [s \in Sessions |-> FALSE]
    /\ drop_err = [s \in Sessions |-> "none"]

NoParse == [kind |-> "Pending", oid |-> NoOid, original_lineno |-> 0]

Init ==
    /\ prog \in Programs
    /\ live = {1}
    /\ InitSessions
    /\ parse_line = <<>>
    /\ parse_out = NoParse

\* Two sessions on the same arguments: both subprocesses run the same prog.
InitPair ==
    /\ prog \in RecordPrograms
    /\ live = Sessions
    /\ InitSessions
    /\ parse_line = <<>>
    /\ parse_out = NoParse

\* GitBlame::new: spawn git with both streams piped; `?` returns the error
\* of a failed spawn. Then stdout and stderr are taken out of the Child (lines
\* 47-58): when either is missing, `?` returns a BlameError and the local
\* `child` goes out of scope (a std Child is not killed or waited for when
\* it is dropped), so the subprocess runs on with no session owning it.
New(s) ==
    /\ s \in live
    /\ pc[s] = "absent"
    /\ \E outcome \in {"spawn_err", "capture_err", "ok"} :
         IF outcome = "ok"
         THEN /\ child' = [child EXCEPT ![s] = "running"]
              /\ pc' = [pc EXCEPT ![s] = "ready"]
         ELSE IF outcome = "capture_err"
         THEN /\ child' = [child EXCEPT ![s] = "running"]
              /\ pc' = [pc EXCEPT ![s] = "new_failed"]
         ELSE /\ pc' = [pc EXCEPT ![s] = "new_failed"]
              /\ UNCHANGED child
    /\ UNCHANGED <<prog, live, cpos, reader, error_reader, line_map, lineno,
                   line, result, how, answered, parseVars, histVars>>

\* The subprocess makes its next write; it blocks while that pipe is full.
ChildWrite(s) ==
    /\ child[s] = "running"
    /\ cpos[s] < Len(prog)
    /\ LET op == prog[cpos[s] + 1]
       IN  IF op.stream = "stdout"
           THEN /\ Len(reader[s].buf) < PipeCap
                /\ reader' = [reader EXCEPT ![s].buf = Append(@, op.data)]
                /\ UNCHANGED error_reader
           ELSE /\ Len(error_reader[s].buf) < PipeCap
                /\ error_reader' = [error_reader EXCEPT ![s].buf = Append(@, op.data)]
                /\ UNCHANGED reader
    /\ cpos' = [cpos EXCEPT ![s] = @ + 1]
    /\ UNCHANGED <<prog, live, child, line_map, pc, lineno, line, result, how,
                   answered, parseVars, histVars>>

\* The subprocess has written everything: it exits, which closes both pipes.
ChildExit(s) ==
    /\ child[s] = "running"
    /\ cpos[s] = Len(prog)
    /\ child' = [child EXCEPT ![s] = "exited"]
    /\ UNCHANGED <<prog, live, cpos, reader, error_reader, line_map, pc, lineno,
                   line, result, how, answered, parseVars, histVars>>

\* HashMap::insert: the value of an existing key is replaced.
HashMap_insert(m, k, v) == [x \in DOMAIN m \cup {k} |-> IF x = k THEN v ELSE m[x]]

\* History: the first Some a line number was answered with.
Note(a, n, o) == IF n \in DOMAIN a THEN a ELSE [x \in DOMAIN a \cup {n} |-> IF x = n THEN o ELSE a[x]]

\* A get_line whose scan starts over from the beginning of the output.
GetLine_Rewind(s, n) ==
    /\ pc[s] \in {"ready", "returned"}
    /\ lineno' = [lineno EXCEPT ![s] = n]
    /\ IF n \in DOMAIN line_map[s]
       THEN /\ result' = [result EXCEPT ![s] = Ok_Some(line_map[s][n])]
            /\ pc' = [pc EXCEPT ![s] = "returned"]
            /\ how' = [how EXCEPT ![s] = "hit"]
            /\ answered' = [answered EXCEPT ![s] = Note(@, n, line_map[s][n])]
            /\ entry' = [entry EXCEPT ![s] = reader[s].pos]
            /\ UNCHANGED <<line, reader>>
       ELSE /\ result' = [result EXCEPT ![s] = NoResult]
            /\ pc' = [pc EXCEPT ![s] = "scan"]
            /\ how' = [how EXCEPT ![s] = "none"]
            /\ line' = [line EXCEPT ![s] = <<>>]
            /\ reader' = [reader EXCEPT ![s].pos = 0]
            /\ entry' = [entry EXCEPT ![s] = 0]
            /\ UNCHANGED answered
    /\ UNCHANGED <<prog, live, child, cpos, error_reader, line_map,
                   parseVars, failed, drop_err>>

\* GetLine without its look in line_map: every call scans.
GetLine_NoCache(s, n) ==
    /\ pc[s] \in {"ready", "returned"}
    /\ lineno' = [lineno EXCEPT ![s] = n]
    /\ result' = [result EXCEPT ![s] = NoResult]
    /\ pc' = [pc EXCEPT ![s] = "scan"]
    /\ how' = [how EXCEPT ![s] = "none"]
    /\ line' = [line EXCEPT ![s] = <<>>]
    /\ entry' = [entry EXCEPT ![s] = reader[s].pos]
    /\ UNCHANGED <<prog, live, child, cpos, reader, error_reader, line_map,
                   answered, parseVars, failed, drop_err>>

\* GitBlame::get_line: the cached revision, or the entry into scan_for_line.
GetLine(s, n) ==
    /\ pc[s] \in {"ready", "returned"}
    /\ lineno' = [lineno EXCEPT ![s] = n]
    /\ IF n \in DOMAIN line_map[s]
       THEN /\ result' = [result EXCEPT ![s] = Ok_Some(line_map[s][n])]
            /\ pc' = [pc EXCEPT ![s] = "returned"]
            /\ how' = [how EXCEPT ![s] = "hit"]
            /\ answered' = [answered EXCEPT ![s] = Note(@, n, line_map[s][n])]
            /\ UNCHANGED line
       ELSE /\ result' = [result EXCEPT ![s] = NoResult]
            /\ pc' = [pc EXCEPT ![s] = "scan"]
            /\ how' = [how EXCEPT ![s] = "none"]
            /\ line' = [line EXCEPT ![s] = <<>>]
            /\ UNCHANGED answered
    /\ entry' = [entry EXCEPT ![s] = reader[s].pos]
    /\ UNCHANGED <<prog, live, child, cpos, reader, error_reader, line_map,
                   parseVars, failed, drop_err>>

\* LoopBody without the return of line 84: the scan goes on past the line
\* it was asked for.
LoopBody_NoEarlyReturn(s, text) ==
    LET blame_line == BlameLine_new(text)
    IN  IF blame_line.kind = "Panic"
        THEN /\ pc' = [pc EXCEPT ![s] = "panicked"]
             /\ how' = [how EXCEPT ![s] = "panic"]
             /\ UNCHANGED <<line_map, result, answered>>
        ELSE IF blame_line.kind = "None"
        THEN UNCHANGED <<pc, how, line_map, result, answered>>
        ELSE /\ line_map' = [line_map EXCEPT ![s] =
                    HashMap_insert(@, blame_line.original_lineno, blame_line.oid)]
             /\ UNCHANGED <<pc, how, result, answered>>

\* The body of the while loop for a line read_line returned.
LoopBody(s, text) ==
    LET blame_line == BlameLine_new(text)
    IN  IF blame_line.kind = "Panic"
        THEN /\ pc' = [pc EXCEPT ![s] = "panicked"]
             /\ how' = [how EXCEPT ![s] = "panic"]
             /\ UNCHANGED <<line_map, result, answered>>
        ELSE IF blame_line.kind = "None"
        THEN UNCHANGED <<pc, how, line_map, result, answered>>
        ELSE /\ line_map' = [line_map EXCEPT ![s] =
                    HashMap_insert(@, blame_line.original_lineno, blame_line.oid)]
             /\ IF blame_line.original_lineno = lineno[s]
                THEN /\ result' = [result EXCEPT ![s] = Ok_Some(blame_line.oid)]
                     /\ pc' = [pc EXCEPT ![s] = "returned"]
                     /\ how' = [how EXCEPT ![s] = "found"]
                     /\ answered' = [answered EXCEPT ![s] = Note(@, lineno[s], blame_line.oid)]
                ELSE UNCHANGED <<pc, how, result, answered>>

\* read_line has its line (it ends in a newline, or the stream ended): an
\* error when the line is not UTF-8, which ends the `while let Ok` loop with
\* the line buffer as it was; else the loop body, then line.clear().
LineRead(s, text) ==
    /\ line' = [line EXCEPT ![s] = <<>>]
    /\ IF ~ValidUtf8(text)
       THEN /\ pc' = [pc EXCEPT ![s] = "drain"]
            /\ how' = [how EXCEPT ![s] = "readerr"]
            /\ UNCHANGED <<line_map, result, answered>>
       ELSE LoopBody(s, text)

\* One step of read_line in scan_for_line's loop: it takes what the pipe
\* holds, and blocks while the pipe is empty and the subprocess has it open.
ReadLine(s) ==
    /\ pc[s] = "scan"
    /\ IF reader[s].buf # <<>>
       THEN LET text == line[s] \o Head(reader[s].buf)
            IN  /\ reader' = [reader EXCEPT ![s] = [buf |-> Tail(@.buf), pos |-> @.pos + 1]]
                /\ IF text[Len(text)] = LF
                   THEN LineRead(s, text)
                   ELSE /\ line' = [line EXCEPT ![s] = text]
                        /\ UNCHANGED <<pc, how, line_map, result, answered>>
       ELSE /\ child[s] # "running"
            /\ UNCHANGED reader
            /\ IF line[s] = <<>>
               THEN \* num_bytes == 0: break
                    /\ pc' = [pc EXCEPT ![s] = "drain"]
                    /\ how' = [how EXCEPT ![s] = "eof"]
                    /\ UNCHANGED <<line, line_map, result, answered>>
               ELSE LineRead(s, line[s])
    /\ UNCHANGED <<prog, live, child, cpos, error_reader, lineno, parseVars, histVars>>

\* DrainStderr that takes a diagnostic for the absence of the line.
DrainStderr_NoBlameError(s) ==
    /\ pc[s] = "drain"
    /\ LET text == line[s] \o Flatten(error_reader[s].buf)
           taken == [buf |-> <<>>, pos |-> error_reader[s].pos + Len(error_reader[s].buf)]
       IN  IF child[s] = "running"
           THEN /\ error_reader[s].buf # <<>>
                /\ error_reader' = [error_reader EXCEPT ![s] = taken]
                /\ line' = [line EXCEPT ![s] = text]
                /\ UNCHANGED <<pc, result>>
           ELSE /\ error_reader' = [error_reader EXCEPT ![s] = taken]
                /\ line' = [line EXCEPT ![s] = <<>>]
                /\ pc' = [pc EXCEPT ![s] = "returned"]
                /\ result' = [result EXCEPT ![s] =
                       IF ~ValidUtf8(text) THEN Err_Io ELSE Ok_None]
    /\ UNCHANGED <<prog, live, child, cpos, reader, line_map, lineno, how,
                   answered, parseVars, histVars>>

\* error_reader.read_to_string(&mut line): it takes what the pipe holds
\* until the subprocess has closed it, then decides the result.
DrainStderr(s) ==
    /\ pc[s] = "drain"
    /\ LET text == line[s] \o Flatten(error_reader[s].buf)
           taken == [buf |-> <<>>, pos |-> error_reader[s].pos + Len(error_reader[s].buf)]
       IN  IF child[s] = "running"
           THEN /\ error_reader[s].buf # <<>>
                /\ error_reader' = [error_reader EXCEPT ![s] = taken]
                /\ line' = [line EXCEPT ![s] = text]
                /\ UNCHANGED <<pc, result, failed>>
           ELSE /\ error_reader' = [error_reader EXCEPT ![s] = taken]
                /\ line' = [line EXCEPT ![s] = <<>>]
                /\ pc' = [pc EXCEPT ![s] = "returned"]
                /\ result' = [result EXCEPT ![s] =
                       IF ~ValidUtf8(text) THEN Err_Io
                       ELSE IF Len(text) > 0 THEN Err_BlameError(text)
                       ELSE Ok_None]
                /\ failed' = [failed EXCEPT ![s] = @ \/ (ValidUtf8(text) /\ Len(text) > 0)]
    /\ UNCHANGED <<prog, live, child, cpos, reader, line_map, lineno, how,
                   answered, parseVars, entry, drop_err>>

\* A Drop that ignores the result of kill() and goes on to wait().
DropKill_IgnoresError(s) ==
    /\ pc[s] \in {"ready", "returned", "panicked"}
    /\ \E killed \in BOOLEAN :
         IF killed
         THEN /\ child' = [child EXCEPT ![s] = IF @ = "running" THEN "killed" ELSE @]
              /\ UNCHANGED drop_err
         ELSE /\ drop_err' = [drop_err EXCEPT ![s] = "kill"]
              /\ UNCHANGED child
    /\ pc' = [pc EXCEPT ![s] = "dropping"]
    /\ UNCHANGED <<prog, live, cpos, reader, error_reader, line_map, lineno,
                   line, result, how, answered, parseVars, entry, failed>>

\* Drop, first half: self.child.kill().expect(..)
DropKill(s) ==
    /\ pc[s] \in {"ready", "returned", "panicked"}
    /\ \E killed \in BOOLEAN :
         IF killed
         THEN /\ child' = [child EXCEPT ![s] = IF @ = "running" THEN "killed" ELSE @]
              /\ pc' = [pc EXCEPT ![s] = "dropping"]
              /\ UNCHANGED drop_err
         ELSE /\ pc' = [pc EXCEPT ![s] = "drop_panicked"]
              /\ drop_err' = [drop_err EXCEPT ![s] = "kill"]
              /\ UNCHANGED child
    /\ UNCHANGED <<prog, live, cpos, reader, error_reader, line_map, lineno,
                   line, result, how, answered, parseVars, entry, failed>>

\* A Drop that kills and does not wait: the subprocess stays a zombie.
DropWait_NoReap(s) ==
    /\ pc[s] = "dropping"
    /\ pc' = [pc EXCEPT ![s] = "dropped"]
    /\ UNCHANGED <<prog, live, child, cpos, reader, error_reader, line_map, lineno,
                   line, result, how, answered, parseVars, histVars>>

\* Drop, second half: self.child.wait().expect(..); wait blocks until the
\* subprocess has ended.
DropWait(s) ==
    /\ pc[s] = "dropping"
    /\ child[s] # "running"
    /\ \E waited \in BOOLEAN :
         IF waited
         THEN /\ child' = [child EXCEPT ![s] = "reaped"]
              /\ pc' = [pc EXCEPT ![s] = "dropped"]
              /\ UNCHANGED drop_err
         ELSE /\ pc' = [pc EXCEPT ![s] = "drop_panicked"]
              /\ drop_err' = [drop_err EXCEPT ![s] = "wait"]
              /\ UNCHANGED child
    /\ UNCHANGED <<prog, live, cpos, reader, error_reader, line_map, lineno,
                   line, result, how, answered, parseVars, entry, failed>>

Next ==
    \E s \in Sessions :
        \/ New(s)
        \/ ChildWrite(s)
        \/ ChildExit(s)
        \/ \E n \in Linenos : GetLine(s, n)
        \/ ReadLine(s)
        \/ DrainStderr(s)
        \/ DropKill(s)
        \/ DropWait(s)

Spec == Init /\ [][Next]_vars

SpecPair == InitPair /\ [][Next]_vars

(***************************************************************************)
(* BlameLine::new on its own: a line is drawn, then parsed                 *)
(***************************************************************************)

CR == "\r"

HexUpper == [HexA EXCEPT ![3] = "D"]

HexShort == SubSeq(HexA, 1, OidHexLen - 1)

HexLong == HexA \o <<"0">>

HexNoHex == [HexA EXCEPT ![OidHexLen] = "g"]

FirstFields == {HexA, HexB, HexUpper, HexShort, HexLong, HexNoHex}

SecondFields ==
    {<<"1">>, <<"0", "7">>, <<"4", "2">>, HugeDigits, <<ArabicIndicThree>>,
     <<"1", "x">>, <<"-", "1">>, <<>>}

ThirdFields == {<<"2">>, <<ArabicIndicThree>>, <<>>}

FourthFields == {<<"1", "0">>, <<"x">>}

Separators == {<<SP>>, <<SP, SP>>}

Endings == {<<LF>>, <<>>, <<CR, LF>>, <<LF, "x">>}

CandidateLines ==
    {f1 \o sep \o f2 \o <<SP>> \o f3 \o <<SP>> \o f4 \o e :
        f1 \in FirstFields, sep \in Separators, f2 \in SecondFields,
        f3 \in ThirdFields, f4 \in FourthFields, e \in Endings}
    \cup {MetaLine, BadLine, <<>>, <<LF>>}

InitParse ==
    /\ prog = <<>>
    /\ live = {}
    /\ InitSessions
    /\ parse_line \in CandidateLines
    /\ parse_out = NoParse

Parse ==
    /\ parse_out = NoParse
    /\ parse_out' = BlameLine_new(parse_line)
    /\ UNCHANGED <<parse_line, sessionVars>>

NextParse == Parse

SpecParse == InitParse /\ [][NextParse]_vars

(***************************************************************************)
(* Properties                                                              *)
(***************************************************************************)

\* What the subprocess writes to standard output, and to standard error.
Stdout == WritesTo(prog, "stdout")

Stderr == WritesTo(prog, "stderr")

\* The text of standard error that session s has not read yet.
UnreadStderr(s) == Flatten(SubSeq(Stderr, error_reader[s].pos + 1, Len(Stderr)))

\* A step that is a get_line call of session s (a repeated cache hit with
\* the same argument and result changes nothing, and is no step at all).
IsCall(s) ==
    /\ pc[s] \in {"ready", "returned"}
    /\ pc'[s] \in {"returned", "scan"}
    /\ <<pc[s], lineno[s], how[s], result[s]>> # <<pc'[s], lineno'[s], how'[s], result'[s]>>

\* C1: once get_line(n) has returned Some(r), every later get_line(n) of
\* the session returns Some(r): whenever a call has returned for a line
\* that was answered before, its result is the first answer.
C1_CacheMonotonic ==
    \A s \in Sessions :
        (pc[s] = "returned" /\ lineno[s] \in DOMAIN answered[s])
            => result[s] = Ok_Some(answered[s][lineno[s]])

\* C2: the mapping never loses a key and never changes the value of a key
\* it holds (insertion is first-writer-wins).
C2_MapNeverReassigns ==
    [][\A s \in Sessions : \A k \in DOMAIN line_map[s] :
          k \in DOMAIN line_map'[s] /\ line_map'[s][k] = line_map[s][k]]_vars

\* C3 as stated: a lookup that reached the end of standard output without
\* finding its line returns a BlameError carrying exactly the bytes standard
\* error produced if there are any, and Ok(None) if there are none.
C3_Original ==
    [][\A s \in Sessions :
          (pc[s] = "drain" /\ how[s] = "eof" /\ pc'[s] = "returned")
              => result'[s] = IF UnreadStderr(s) # <<>>
                              THEN Err_BlameError(UnreadStderr(s))
                              ELSE Ok_None]_vars

\* C3 as amended: the same, for bytes that are valid UTF-8; bytes that are
\* not make the lookup return an I/O error.
C3_ExhaustionDecidedByStderr ==
    [][\A s \in Sessions :
          (pc[s] = "drain" /\ how[s] = "eof" /\ pc'[s] = "returned")
              => result'[s] = IF ~ValidUtf8(UnreadStderr(s)) THEN Err_Io
                              ELSE IF UnreadStderr(s) # <<>>
                              THEN Err_BlameError(UnreadStderr(s))
                              ELSE Ok_None]_vars

\* C3's case: the subprocess wrote no record and a diagnostic, and the
\* lookup failed with exactly that diagnostic.
C3_Witness ==
    /\ pc[1] = "returned" /\ how[1] = "eof"
    /\ Stdout = <<>> /\ Stderr = <<ErrText>>
    /\ result[1] = Err_BlameError(ErrText)

\* C4: when the scan of get_line(n) reads a line that parses to a record of
\* original line n, the call returns that record's revision in that step,
\* with the cursor just past that line: nothing more is taken from standard
\* output, and nothing from standard error.
C4_EarlyTermination ==
    [][\A s \in Sessions :
          (/\ pc[s] = "scan"
           /\ reader'[s].pos = reader[s].pos + 1
           /\ BlameLine_new(line[s] \o Stdout[reader'[s].pos]).kind = "Some"
           /\ BlameLine_new(line[s] \o Stdout[reader'[s].pos]).original_lineno = lineno[s])
              => /\ pc'[s] = "returned"
                 /\ result'[s] = Ok_Some(BlameLine_new(Stdout[reader'[s].pos]).oid)
                 /\ reader'[s].buf = Tail(reader[s].buf)
                 /\ error_reader'[s] = error_reader[s]]_vars

\* C4's case: the line was found and returned while output after it is
\* still unread.
C4_Witness ==
    /\ pc[1] = "returned" /\ how[1] = "found"
    /\ result[1] = Ok_Some(Oid_from_str(HexA).oid)
    /\ reader[1].pos < Len(Stdout)

\* C5: a get_line(n) call with n in the mapping returns the mapped revision
\* and leaves both stream cursors, the mapping and the subprocess as they
\* were.
C5_CacheHitNoIo ==
    [][\A s \in Sessions :
          (IsCall(s) /\ lineno'[s] \in DOMAIN line_map[s])
              => /\ pc'[s] = "returned"
                 /\ result'[s] = Ok_Some(line_map[s][lineno'[s]])
                 /\ reader'[s] = reader[s]
                 /\ error_reader'[s] = error_reader[s]
                 /\ line_map'[s] = line_map[s]
                 /\ child'[s] = child[s]
                 /\ cpos'[s] = cpos[s]]_vars

\* C5's case: a call was answered from the mapping while unread output
\* stood in the pipe.
C5_Witness ==
    /\ pc[1] = "returned" /\ how[1] = "hit"
    /\ reader[1].buf # <<>>

\* C6: a read failure on either stream makes the lookup return an I/O error.
C6_ReadFailureSurfaces ==
    [][\A s \in Sessions :
          (/\ pc[s] = "drain" /\ pc'[s] = "returned"
           /\ (how[s] = "readerr" \/ ~ValidUtf8(line[s] \o UnreadStderr(s))))
              => result'[s] = Err_Io]_vars

\* C7: disposal kills before it waits, and once it has completed the
\* subprocess is reaped: neither running nor a zombie.
C7_DisposalReaps ==
    \A s \in Sessions :
        /\ pc[s] = "dropping" => child[s] # "running"
        /\ pc[s] = "dropped" => child[s] = "reaped"

\* C7's case: a session was disposed of after a lookup, while its
\* subprocess still had output to write.
C7_Witness ==
    /\ pc[1] = "dropped" /\ child[1] = "reaped"
    /\ reader[1].pos > 0 /\ cpos[1] < Len(prog)

\* C8: two sessions whose subprocesses write the same output never answer
\* the same line number with different revisions.
C8_Determinism ==
    \A s, t \in Sessions :
        (/\ pc[s] = "returned" /\ pc[t] = "returned"
         /\ lineno[s] = lineno[t]
         /\ result[s].kind = "Some" /\ result[t].kind = "Some")
            => result[s].oid = result[t].oid

\* The subprocess cannot make its next write: that pipe is full.
ChildBlocked(s) ==
    /\ child[s] = "running"
    /\ cpos[s] < Len(prog)
    /\ IF prog[cpos[s] + 1].stream = "stdout"
       THEN Len(reader[s].buf) >= PipeCap
       ELSE Len(error_reader[s].buf) >= PipeCap

\* The lookup cannot go on: the pipe it reads is empty and still open.
ReaderBlocked(s) ==
    /\ child[s] = "running"
    /\ \/ pc[s] = "scan" /\ reader[s].buf = <<>>
       \/ pc[s] = "drain" /\ error_reader[s].buf = <<>>

\* C9: a lookup and its subprocess are never blocked on each other (so
\* every lookup returns once the subprocess has written its finite output).
C9_NeverBlockedOnEachOther ==
    \A s \in Sessions : ~(ReaderBlocked(s) /\ ChildBlocked(s))

\* The record shape: 40 lowercase hex characters, a space, and three
\* decimal numbers, a space between them and a newline at the end; a is
\* where the second field ends and b where the third does.
ShapeAt(text, a, b) ==
    LET Decimal(i, j) == i <= j /\ \A k \in i..j : text[k] \in AsciiDigits
    IN  /\ Len(text) > OidHexLen + 1
        /\ \A i \in 1..OidHexLen : text[i] \in LowerHex
        /\ text[OidHexLen + 1] = SP
        /\ Decimal(OidHexLen + 2, a)
        /\ text[a + 1] = SP
        /\ Decimal(a + 2, b)
        /\ text[b + 1] = SP
        /\ Decimal(b + 2, Len(text) - 1)
        /\ text[Len(text)] = LF

HasShape(text) ==
    \E a, b \in (OidHexLen + 2)..(Len(text) - 4) : a < b /\ ShapeAt(text, a, b)

ShapeSecondField(text) ==
    LET a == CHOOSE a \in (OidHexLen + 2)..(Len(text) - 4) :
                 \E b \in (OidHexLen + 2)..(Len(text) - 4) : a < b /\ ShapeAt(text, a, b)
    IN  SubSeq(text, OidHexLen + 2, a)

\* C10: the parser returns a record exactly for the lines of the record
\* shape, the record carrying the first field as revision and the value of
\* the second as original line number; every other line yields no record.
C10_ParserRecognisesExactlyTheShape ==
    parse_out # NoParse =>
        IF HasShape(parse_line)
        THEN /\ parse_out.kind = "Some"
             /\ Oid_to_string(parse_out.oid) = SubSeq(parse_line, 1, OidHexLen)
             /\ parse_out.original_lineno = DecValue(ShapeSecondField(parse_line))
        ELSE parse_out = NoBlameLine

\* C11: the parser is total: for every line it returns a record or no
\* record and never aborts (a line whose fields cannot be converted yields
\* no record).
C11_ParserTotal ==
    parse_out # NoParse =>
        /\ parse_out.kind \in {"Some", "None"}
        /\ LET captures == BLAME_LINE_REGEX(parse_line)
           IN  (captures.matched /\ ~UsizeFromStr(captures.c2).ok)
                   => parse_out = NoBlameLine

\* C12 as stated: the output-stream cursor never moves backwards, and every
\* get_line that returns was answered from the mapping or has advanced the
\* cursor, also when it was called after end-of-stream.
C12_Original ==
    /\ [][\A s \in Sessions : reader'[s].pos >= reader[s].pos]_vars
    /\ [](\A s \in Sessions :
            pc[s] = "returned" => how[s] = "hit" \/ reader[s].pos > entry[s])

\* C12, amended: the output-stream cursor never moves backwards, and every
\* get_line that returns was answered from the mapping, or has advanced the
\* cursor, or began when the whole output had been read already; a call of
\* the last kind leaves the cursor where it was and returns no revision.
C12_ForwardProgress ==
    /\ [][\A s \in Sessions : reader'[s].pos >= reader[s].pos]_vars
    /\ [](\A s \in Sessions :
            pc[s] = "returned" =>
                \/ how[s] = "hit"
                \/ reader[s].pos > entry[s]
                \/ /\ entry[s] = Len(Stdout)
                   /\ reader[s].pos = entry[s]
                   /\ result[s].kind # "Some")

\* C12's case: a lookup made after the output was read to its end returned
\* with the cursor where it was.
C12_Witness ==
    /\ pc[1] = "returned" /\ how[1] = "eof"
    /\ entry[1] > 0 /\ reader[1].pos = entry[1]

\* C13: once a get_line of a session has returned a BlameError, every later
\* get_line of that session for a line that is not in the mapping returns an
\* error too, never Ok(None).
C13_FailureTerminal ==
    \A s \in Sessions :
        (pc[s] = "returned" /\ failed[s] /\ how[s] # "hit")
            => result[s].kind \in {"BlameError", "IoError"}

\* The lines of a text: each ends with its newline, but for a last one the
\* text leaves unterminated.
RECURSIVE Lines(_)
Lines(text) ==
    IF text = <<>> THEN <<>>
    ELSE IF \E i \in 1..Len(text) : text[i] = LF
    THEN LET i == CHOOSE j \in 1..Len(text) :
                     text[j] = LF /\ \A k \in 1..(j - 1) : text[k] # LF
         IN  <<SubSeq(text, 1, i)>> \o Lines(SubSeq(text, i + 1, Len(text)))
    ELSE <<text>>

\* The whole output contains a record of original line number n (and of
\* revision r).
OutputHasLine(n) ==
    \E i \in 1..Len(Lines(Flatten(Stdout))) :
        LET blame_line == BlameLine_new(Lines(Flatten(Stdout))[i])
        IN  blame_line.kind = "Some" /\ blame_line.original_lineno = n

OutputHasRecord(r, n) ==
    \E i \in 1..Len(Lines(Flatten(Stdout))) :
        LET blame_line == BlameLine_new(Lines(Flatten(Stdout))[i])
        IN  /\ blame_line.kind = "Some"
            /\ blame_line.original_lineno = n
            /\ blame_line.oid = r

\* C14: with an empty standard error, get_line(n) returns Some(r) only if
\* the output contains a record (r, n), and Ok(None) only if no record of
\* original line number n occurs anywhere in the whole output.
C14_NoRecordLost ==
    Stderr = <<>> =>
        \A s \in Sessions :
            pc[s] = "returned" =>
                /\ result[s].kind = "Some" => OutputHasRecord(result[s].oid, lineno[s])
                /\ result[s].kind = "None" => ~OutputHasLine(lineno[s])

\* Standard output is at end-of-stream: the pipe is empty and the
\* subprocess has closed it.
AtEndOfStream(s) == reader[s].buf = <<>> /\ child[s] # "running"

\* C15: a get_line whose line is in the mapping or is found in the output
\* returns Some(r) without reading standard error, and standard error is
\* read only after standard output has reached end-of-stream.
C15_StderrOnlyAfterEndOfStream ==
    /\ [][\A s \in Sessions :
            /\ (pc'[s] = "returned" /\ pc[s] # "drain" /\ pc[s] # "returned")
                   => /\ how'[s] \in {"hit", "found"}
                      /\ result'[s].kind = "Some"
                      /\ error_reader'[s] = error_reader[s]
            /\ error_reader'[s].pos # error_reader[s].pos => pc[s] = "drain"]_vars
    /\ [](\A s \in Sessions : pc[s] = "drain" => AtEndOfStream(s))

\* C16: on every exit path after the subprocess was spawned, a failed
\* construction included, the subprocess has been terminated and reaped.
C16_NoSubprocessEscapes ==
    \A s \in Sessions :
        (pc[s] \in {"new_failed", "dropped", "drop_panicked"} /\ child[s] # "none")
            => child[s] = "reaped"

\* C17: when terminating the subprocess fails or waiting for it fails,
\* disposal panics and does not return normally; disposal returns normally
\* only when no step of the cleanup failed and the subprocess is reaped.
C17_CleanupFailureFatal ==
    \A s \in Sessions :
        /\ drop_err[s] # "none" <=> pc[s] = "drop_panicked"
        /\ pc[s] = "dropped" => drop_err[s] = "none" /\ child[s] = "reaped"

\* C17's case: the subprocess was killed, then waiting for it failed.
C17_Witness ==
    /\ pc[1] = "drop_panicked" /\ drop_err[1] = "wait"
    /\ child[1] = "killed"

====
